---- MODULE Spec2Model ----
(***************************************************************************)
(* The oral-exam progression workflow of src/src/orchestrator.py: the      *)
(* LangGraph nodes ask / listen / grade / remedial / advance, the router   *)
(* route_logic, and the two judge ports (src/src/judge.py) they call.      *)
(*                                                                         *)
(* Scores are in tenths of a point (7.0 is 70), texts are sequences of     *)
(* string tokens, a dict is a record, and a node is an operator from the   *)
(* state to the partial update it returns plus what it did to the outside  *)
(* (texts sent to io.output, judge calls, the exception it raised).        *)
(*                                                                         *)
(* The web adapter (src/src/ui.py process_answer) and the desktop adapter  *)
(* (src/src/gui.py) are sessions of their own: LockstepSpec feeds them the *)
(* judge results of the console run, GuiSpec runs the desktop adapter's    *)
(* worker threads and queue poller.                                        *)
(***************************************************************************)
EXTENDS Integers, Sequences, FiniteSets, TLC

VARIABLES state, pc, step, answers_on_q, answers_total, tally, asked, web, gui, seen,
          msg_queue, threads

vars == <<state, pc, step, answers_on_q, answers_total, tally, asked, web, gui, seen,
          msg_queue, threads>>

(* ------------------------------- bounds -------------------------------- *)

\* Longest exam plan explored (plans of 0..MaxQuestions questions).
MaxQuestions == 2

\* Entries of state["history"] kept: the model holds the newest MaxHistory.
MaxHistory == 3

\* The answer counters stop counting here.
MaxCount == 6

\* Most grading threads of the desktop adapter started and not yet handled.
MaxThreads == 2

(* -------------------------- program constants -------------------------- *)

\* ui.py process_answer: "st.session_state.retry_count < 2".
WEB_MAX_RETRIES == 2
\* gui.py _handle_eval_result: "self.retry_count < 2".
GUI_MAX_RETRIES == 2
\* evaluate_response: "if score > 7.0" and "3.0 <= score <= 7.0".
PASS_SCORE == 70
PARTIAL_SCORE == 30
\* route_logic: "if score > 6.9".
ROUTE_PASS_SCORE == 69
\* remedial_action: "if retries >= 2".
MAX_RETRIES == 2
\* remedial_action: {"retry_count": 99, ...}.
GIVE_UP_RETRIES == 99
\* route_logic: "if state['retry_count'] < 3".
ROUTE_RETRY_LIMIT == 3
\* judge.evaluate_answer: round(final_score * 10, 1) with final_score in [0, 1].
MAX_SCORE == 100

(* ------------------------------- values -------------------------------- *)

\* Python's None where a dict is expected, and where a string is expected.
None == [py |-> "None"]
NoneStr == "None"

\* Python truthiness of an Optional[dict]: None and {} are false.
Truthy(v) == v /= None /\ DOMAIN v /= {}

Min(a, b) == IF a < b THEN a ELSE b
Last(s) == s[Len(s)]

\* str.replace("User: ", ""): every occurrence of the token is removed.
Replace(text) == SelectSeq(text, LAMBDA t : t /= "User: ")

\* The newest MaxHistory entries of a history.
Keep(h) == IF Len(h) > MaxHistory THEN SubSeq(h, Len(h) - MaxHistory + 1, Len(h)) ELSE h

\* ExamQuestion.model_dump() of question i (1-based here, index i-1 in Python);
\* odd questions carry an exemplar, even ones none.
Question(i) ==
    [question |-> <<"Q", ToString(i)>>,
     context_snippet |-> <<"ctx", ToString(i)>>,
     rubric |-> [criteria |-> <<"crit", ToString(i)>>,
                 exemplar |-> IF i % 2 = 1 THEN "exemplar" ELSE NoneStr]]

\* ExamPlan.model_dump() of a plan of n questions.
ExamPlan(n) == [topic |-> "T", questions |-> [i \in 1..n |-> Question(i)]]

\* What the student may type (io.input), as token sequences.
Answers == {<<"x">>, <<>>, <<"User: ", "x">>}

\* Scores the grader may return: the boundary values of every threshold.
ScoreSamples == {0, PARTIAL_SCORE - 1, PARTIAL_SCORE, 50, ROUTE_PASS_SCORE,
                 PASS_SCORE, PASS_SCORE + 1, MAX_SCORE}

\* Outcome of one judge.evaluate_answer call: a score, or an exception.
GradingOutcomes ==
    {[raises |-> FALSE, score |-> s] : s \in ScoreSamples}
        \cup {[raises |-> TRUE, score |-> 0]}

\* Outcome of the model call inside generate_followup.
FollowupReplies == {"json", "no_question", "unparseable", "raises"}

(* ----------------------------- judge ports ----------------------------- *)

\* RagasJudge.evaluate_answer: the JudgeResult built from the scaled score.
evaluate_answer(score) == [score |-> score, is_remedial_needed |-> score < PASS_SCORE]

\* RagasJudge.generate_followup: the model call is outside the try block, so its
\* exception leaves the function; a reply json.loads accepts is returned as it
\* is, whether or not it has the keys asked for ("no_question": an object
\* without "question"); any other reply yields the catch-all follow-up.
generate_followup(original_q, answer, rubric, context, reply) ==
    CASE reply = "raises" -> [raised |-> "FollowupError", value |-> None]
      [] reply = "json" ->
            [raised |-> NoneStr,
             value |-> [question |-> <<"F">> \o original_q,
                        context_snippet |-> context,
                        rubric |-> [criteria |-> <<"fcrit">>, exemplar |-> "fexemplar"]]]
      [] reply = "no_question" ->
            [raised |-> NoneStr,
             value |-> [context_snippet |-> context,
                        rubric |-> [criteria |-> <<"fcrit">>, exemplar |-> "fexemplar"]]]
      [] OTHER ->
            [raised |-> NoneStr,
             value |-> [question |-> <<"Could you elaborate more on that?">>,
                        context_snippet |-> context,
                        rubric |-> [criteria |-> <<"Elaborate on missing details.">>]]]

(* ---------------------------- graph state ------------------------------ *)

\* dict.get(key, default) on a record.
Get(d, key, default) == IF key \in DOMAIN d THEN d[key] ELSE default

\* InterviewState without the reducer on history: a returned history replaces
\* the old one like any other key.
Merge_overwrites(s, upd) ==
    [k \in DOMAIN s |-> IF k \notin DOMAIN upd THEN s[k] ELSE upd[k]]

\* How LangGraph applies a node's return value to InterviewState: history is
\* Annotated with operator.add (concatenation), every other key is overwritten,
\* a key the node does not return keeps its value.
Merge(s, upd) ==
    [k \in DOMAIN s |->
        IF k \notin DOMAIN upd THEN s[k]
        ELSE IF k = "history" THEN Keep(s[k] \o upd[k])
        ELSE upd[k]]

\* What a node hands back: the update, the texts it sent to io.output, the judge
\* calls it made, whether it read io.input, and the exception it raised.
Returned(upd, out, calls) ==
    [upd |-> upd, out |-> out, calls |-> calls, raised |-> NoneStr]
Raised(exc, calls) ==
    [upd |-> <<>>, out |-> <<>>, calls |-> calls, raised |-> exc]

(* ------------------------------- nodes --------------------------------- *)

\* OralExamOrchestrator.ask_question
ask_question(s) ==
    IF Truthy(s.followup_question)
    THEN IF "question" \notin DOMAIN s.followup_question
         THEN Raised("KeyError", <<>>)
         ELSE LET text == s.followup_question.question IN
              Returned([history |-> << <<"AI (Follow-up): ">> \o text >>],
                       << <<"[Follow-up]: ">> \o text >>, <<>>)
    ELSE LET idx == s.current_q_index
             plan == s.exam_plan IN
         IF idx >= Len(plan.questions)
         THEN Returned([history |-> << <<"System: Exam Finished">> >>], <<>>, <<>>)
         ELSE LET text == plan.questions[idx + 1].question IN
              Returned([history |-> << <<"AI: ">> \o text >>], <<text>>, <<>>)

\* OralExamOrchestrator.listen_answer
listen_answer(s, answer) ==
    Returned([history |-> << <<"User: ">> \o answer >>], <<>>, <<>>)

\* The evaluate_answer call made without the exemplar.
EvaluateCall_drops_exemplar(q_text, last_answer, context, rubric, exemplar, raises) ==
    [port |-> "evaluate_answer", question |-> q_text, user_answer |-> last_answer,
     context |-> context, criteria |-> Get(rubric, "criteria", <<>>),
     exemplar |-> NoneStr, raises |-> raises]

\* The keyword arguments of the judge.evaluate_answer call, and whether the
\* call raised.
EvaluateCall(q_text, last_answer, context, rubric, exemplar, raises) ==
    [port |-> "evaluate_answer", question |-> q_text, user_answer |-> last_answer,
     context |-> context, criteria |-> Get(rubric, "criteria", <<>>),
     exemplar |-> exemplar, raises |-> raises]

\* The keyword arguments of the judge.generate_followup call.
FollowupCall(q_text, last_answer, context, rubric) ==
    [port |-> "generate_followup", question |-> q_text, user_answer |-> last_answer,
     context |-> context, criteria |-> Get(rubric, "criteria", <<>>),
     exemplar |-> NoneStr, raises |-> FALSE]

\* evaluate_response, tier 2: "if 3.0 <= score <= 7.0: if not followup_data:".
\* The variant probes whenever the score is partial, follow-up or not.
probe_partial_always(score, followup_data) ==
    PARTIAL_SCORE <= score /\ score <= PASS_SCORE

probe_partial(score, followup_data) ==
    PARTIAL_SCORE <= score /\ score <= PASS_SCORE /\ ~Truthy(followup_data)

\* OralExamOrchestrator.evaluate_response, after the judge returned `result`.
evaluate_branch(s, result, q_text, last_answer, context, rubric, call, reply) ==
    LET idx == s.current_q_index
        followup_data == s.followup_question
        score == result.score IN
    IF score > PASS_SCORE
    THEN Returned([last_judge_result |-> result, followup_question |-> None,
                   retry_count |-> 0, current_q_index |-> idx],
                  <<>>, <<call>>)
    ELSE IF probe_partial(score, followup_data)
    THEN LET gen == generate_followup(q_text, last_answer,
                                      Get(rubric, "criteria", <<>>), context, reply)
             calls == <<call, FollowupCall(q_text, last_answer, context, rubric)>> IN
         IF gen.raised /= NoneStr
         THEN Raised(gen.raised, calls)
         ELSE Returned([last_judge_result |-> result,
                        followup_question |-> gen.value,
                        retry_count |-> s.retry_count + 1],
                       <<>>, calls)
    ELSE Returned([last_judge_result |-> result,
                   followup_question |-> followup_data,
                   retry_count |-> s.retry_count],
                  <<>>, <<call>>)

\* evaluate_response catching the grader's exception and going on as if the
\* answer had scored 0.
evaluate_response_swallows(s, grading, reply) ==
    LET idx == s.current_q_index
        last_answer == Replace(Last(s.history))
        followup_data == s.followup_question IN
    IF ~Truthy(followup_data) /\ idx >= Len(s.exam_plan.questions)
    THEN Raised("IndexError", <<>>)
    ELSE LET q_data == IF Truthy(followup_data) THEN followup_data
                       ELSE s.exam_plan.questions[idx + 1]
             rubric == q_data.rubric
             call == EvaluateCall(q_data.question, last_answer, q_data.context_snippet,
                                  rubric, Get(rubric, "exemplar", NoneStr),
                                  grading.raises) IN
         evaluate_branch(s, evaluate_answer(grading.score), q_data.question, last_answer,
                         q_data.context_snippet, rubric, call, reply)

\* OralExamOrchestrator.evaluate_response: choose what is graded (the follow-up
\* if one is active, else questions[idx], an IndexError past the end), call the
\* judge, branch on the score.
evaluate_response(s, grading, reply) ==
    LET idx == s.current_q_index
        last_answer == Replace(Last(s.history))
        followup_data == s.followup_question IN
    IF ~Truthy(followup_data) /\ idx >= Len(s.exam_plan.questions)
    THEN Raised("IndexError", <<>>)
    ELSE LET q_data == IF Truthy(followup_data) THEN followup_data
                       ELSE s.exam_plan.questions[idx + 1]
             q_text == q_data.question
             context == q_data.context_snippet
             rubric == q_data.rubric
             exemplar == Get(rubric, "exemplar", NoneStr)
             call == EvaluateCall(q_text, last_answer, context, rubric, exemplar,
                                  grading.raises) IN
         IF grading.raises
         THEN Raised("GradingError", <<call>>)
         ELSE evaluate_branch(s, evaluate_answer(grading.score), q_text, last_answer,
                              context, rubric, call, reply)

\* remedial_action taking every hint from the main question's rubric.
remedial_action_main_rubric(s) ==
    LET retries == s.retry_count IN
    IF retries >= MAX_RETRIES
    THEN Returned([retry_count |-> GIVE_UP_RETRIES, followup_question |-> None],
                  << <<"We seem to be stuck. Let's move to the next topic.">> >>, <<>>)
    ELSE LET rubric == s.exam_plan.questions[s.current_q_index + 1].rubric
             rubric_hint == Get(rubric, "criteria", <<"Review the concept.">>)
             hint == <<"Not quite. Hint: ">> \o rubric_hint \o <<". Try again.">> IN
         Returned([history |-> << <<"AI Hint: ">> \o hint >>, retry_count |-> retries + 1],
                  <<hint>>, <<>>)

\* OralExamOrchestrator.remedial_action
remedial_action(s) ==
    LET retries == s.retry_count IN
    IF retries >= MAX_RETRIES
    THEN Returned([retry_count |-> GIVE_UP_RETRIES, followup_question |-> None],
                  << <<"We seem to be stuck. Let's move to the next topic.">> >>, <<>>)
    ELSE LET rubric == IF Truthy(s.followup_question)
                       THEN s.followup_question.rubric
                       ELSE s.exam_plan.questions[s.current_q_index + 1].rubric
             rubric_hint == Get(rubric, "criteria", <<"Review the concept.">>)
             hint == <<"Not quite. Hint: ">> \o rubric_hint \o <<". Try again.">> IN
         Returned([history |-> << <<"AI Hint: ">> \o hint >>, retry_count |-> retries + 1],
                  <<hint>>, <<>>)

\* advance_step forgetting to discard the follow-up.
advance_step_keeps_followup(s) ==
    Returned([current_q_index |-> s.current_q_index + 1, retry_count |-> 0,
              last_judge_result |-> None],
             <<>>, <<>>)

\* advance_step skipping a question: the index goes up by 2.
advance_step_skips(s) ==
    Returned([current_q_index |-> s.current_q_index + 2, retry_count |-> 0,
              last_judge_result |-> None, followup_question |-> None],
             <<>>, <<>>)

\* advance_step carrying retry_count over to the next question.
advance_step_keeps_retries(s) ==
    Returned([current_q_index |-> s.current_q_index + 1,
              last_judge_result |-> None, followup_question |-> None],
             <<>>, <<>>)

\* OralExamOrchestrator.advance_step
advance_step(s) ==
    Returned([current_q_index |-> s.current_q_index + 1, retry_count |-> 0,
              last_judge_result |-> None, followup_question |-> None],
             <<>>, <<>>)

\* route_logic without its pass rule: a passing score falls through to the
\* follow-up and retry rules.
route_logic_no_pass(s) ==
    LET idx == s.current_q_index
        res == s.last_judge_result
        score == IF res /= None THEN res.score ELSE 0 IN
    IF idx >= Len(s.exam_plan.questions) THEN "END"
    ELSE IF Truthy(s.followup_question) /\ PARTIAL_SCORE <= score /\ score <= PASS_SCORE
         THEN "ask"
    ELSE IF s.retry_count < ROUTE_RETRY_LIMIT THEN "remedial"
    ELSE "advance"

\* build_workflow.route_logic: the node that runs after grade.
route_logic(s) ==
    LET idx == s.current_q_index
        res == s.last_judge_result
        score == IF res /= None THEN res.score ELSE 0 IN
    IF idx >= Len(s.exam_plan.questions) THEN "END"
    ELSE IF score > ROUTE_PASS_SCORE THEN "advance"
    ELSE IF Truthy(s.followup_question) /\ PARTIAL_SCORE <= score /\ score <= PASS_SCORE
         THEN "ask"
    ELSE IF s.retry_count < ROUTE_RETRY_LIMIT THEN "remedial"
    ELSE "advance"

\* The edges with remedial leading back to ask: the question is presented
\* again after a hint.
NextNode_reasks(node, s) ==
    CASE node = "ask" -> "listen"
      [] node = "listen" -> "grade"
      [] node = "grade" -> route_logic(s)
      [] node = "remedial" -> "ask"
      [] node = "advance" -> "ask"

\* The edges of build_workflow: the node that runs after `node` returned.
NextNode(node, s) ==
    CASE node = "ask" -> "listen"
      [] node = "listen" -> "grade"
      [] node = "grade" -> route_logic(s)
      [] node = "remedial" -> "listen"
      [] node = "advance" -> "ask"

(* ------------------------------ workflow ------------------------------- *)

\* The calls of one step include a follow-up generation.
GeneratesFollowup(st) == \E i \in 1..Len(st.calls) : st.calls[i].port = "generate_followup"

GivesHint(st) == st.out /= <<>> /\ st.out[1][1] = "Not quite. Hint: "

SaysMovingOn(st) == st.out = << <<"We seem to be stuck. Let's move to the next topic.">> >>

\* The step presents a follow-up question / a main question.
AsksFollowup(st) == st.node = "ask" /\ st.out /= <<>> /\ st.out[1][1] = "[Follow-up]: "
AsksMain(st) == st.node = "ask" /\ st.out /= <<>> /\ st.out[1][1] = "Q"

\* The question text a step of ask presented (io.output without the
\* "[Follow-up]: " prefix), given what had been presented before.
Presented(st, before) ==
    IF st.node = "ask" /\ st.out /= <<>>
    THEN IF st.out[1][1] = "[Follow-up]: " THEN Tail(st.out[1]) ELSE st.out[1]
    ELSE before

\* What has happened while current_q_index had its present value (hints given,
\* generate_followup calls, follow-ups presented, whether every score was below
\* 3.0, whether the moving-on message was output), and whether every score of
\* the run was above 7.0.
NewTally(only_passes) ==
    [hints |-> 0, followups |-> 0, followup_asks |-> 0, only_fails |-> TRUE,
     moved_on |-> FALSE, only_passes |-> only_passes]

Tallied(old, st, new_state) ==
    LET graded == st.node = "grade" /\ st.raised = NoneStr
        score == new_state.last_judge_result.score IN
    [hints |-> IF GivesHint(st) THEN Min(old.hints + 1, MaxCount) ELSE old.hints,
     followups |-> IF GeneratesFollowup(st) THEN Min(old.followups + 1, MaxCount)
                   ELSE old.followups,
     followup_asks |-> IF AsksFollowup(st) THEN Min(old.followup_asks + 1, MaxCount)
                       ELSE old.followup_asks,
     only_fails |-> old.only_fails /\ (graded => score < PARTIAL_SCORE),
     moved_on |-> old.moved_on \/ SaysMovingOn(st),
     only_passes |-> old.only_passes /\ (graded => score > PASS_SCORE)]

(* ------------------------------ adapters ------------------------------- *)

\* ui.py: the session defaults; no plan is loaded.
WebSession ==
    [exam_plan |-> None, current_q_index |-> 0, retry_count |-> 0,
     exam_complete |-> FALSE, said |-> <<>>]

\* ui.py, "Generate Exam": the plan is stored and its first question shown.
WebStarted(plan) == [WebSession EXCEPT !.exam_plan = plan, !.said = <<"question">>]

\* ui.py: the chat input is offered while a plan is loaded and the exam is
\* not complete.
WebAccepts(w) == w.exam_plan /= None /\ ~w.exam_complete

\* process_answer with "retry_count <= 2": a third hint before moving on.
process_answer_third_hint(w, result) ==
    IF result.is_remedial_needed /\ w.retry_count <= WEB_MAX_RETRIES
    THEN [w EXCEPT !.retry_count = w.retry_count + 1, !.said = <<"hint">>]
    ELSE LET msg == IF w.retry_count >= WEB_MAX_RETRIES THEN "transition" ELSE "correct"
             idx == w.current_q_index + 1
         IN  IF idx >= Len(w.exam_plan.questions)
             THEN [w EXCEPT !.current_q_index = idx, !.retry_count = 0,
                            !.exam_complete = TRUE, !.said = <<msg, "complete">>]
             ELSE [w EXCEPT !.current_q_index = idx, !.retry_count = 0,
                            !.said = <<msg, "question">>]

\* ui.py process_answer, after the judge returned `result`; `said` lists the
\* messages it adds.
process_answer(w, result) ==
    IF result.is_remedial_needed /\ w.retry_count < WEB_MAX_RETRIES
    THEN [w EXCEPT !.retry_count = w.retry_count + 1, !.said = <<"hint">>]
    ELSE LET msg == IF w.retry_count >= WEB_MAX_RETRIES THEN "transition" ELSE "correct"
             idx == w.current_q_index + 1
         IN  IF idx >= Len(w.exam_plan.questions)
             THEN [w EXCEPT !.current_q_index = idx, !.retry_count = 0,
                            !.exam_complete = TRUE, !.said = <<msg, "complete">>]
             ELSE [w EXCEPT !.current_q_index = idx, !.retry_count = 0,
                            !.said = <<msg, "question">>]

\* gui.py LexiApp.__init__ and _build_layout: no plan, upload and SEND
\* disabled.
GuiApp ==
    [exam_plan |-> None, current_q_index |-> 0, retry_count |-> 0,
     exam_complete |-> FALSE, entry_input |-> "normal", btn_send |-> "disabled",
     btn_upload |-> "disabled", said |-> <<>>]

\* gui.py _next_question: completion notice (the entry is disabled, SEND is
\* not), or the question at the index.
_next_question(g) ==
    IF g.current_q_index >= Len(g.exam_plan.questions)
    THEN [g EXCEPT !.exam_complete = TRUE, !.entry_input = "disabled",
                   !.said = g.said \o <<"complete">>]
    ELSE [g EXCEPT !.said = g.said \o <<"question">>]

\* gui.py _check_queue, INIT_SUCCESS: the upload button is enabled.
on_init_success(g) == [g EXCEPT !.btn_upload = "normal"]

\* gui.py _check_queue, PLAN_READY: the plan is stored, the counters reset
\* (exam_complete is not), upload and input enabled, the first question shown.
on_plan_ready(g, plan) ==
    _next_question([g EXCEPT !.exam_plan = plan, !.current_q_index = 0,
                             !.retry_count = 0, !.btn_upload = "normal",
                             !.entry_input = "normal", !.btn_send = "normal",
                             !.said = <<>>])

\* gui.py _check_queue, ERROR: the input is enabled again.
on_error(g) == [g EXCEPT !.entry_input = "normal", !.btn_send = "normal"]

\* The desktop session once the pipeline is initialised and a plan is ready.
GuiStarted(plan) == on_plan_ready(on_init_success(GuiApp), plan)

\* gui.py _on_send: ignored while SEND is disabled; neither exam_plan nor
\* exam_complete is consulted.
GuiAccepts(g) == g.btn_send /= "disabled"

\* gui.py _on_send, on the main thread: the input is disabled while the
\* answer is processed.
_on_send(g) == [g EXCEPT !.entry_input = "disabled", !.btn_send = "disabled"]

\* gui.py _upload_pdf_action, once a file is chosen.
_upload_pdf_action(g) == [g EXCEPT !.btn_upload = "disabled"]

\* gui.py _handle_eval_result, for the EVAL_RESULT message carrying `result`;
\* its last statements enable the entry and SEND again.
_handle_eval_result(g, result) ==
    LET done ==
          IF result.is_remedial_needed /\ g.retry_count < GUI_MAX_RETRIES
          THEN [g EXCEPT !.retry_count = g.retry_count + 1, !.said = <<"hint">>]
          ELSE _next_question(
                 [g EXCEPT !.current_q_index = g.current_q_index + 1,
                           !.retry_count = 0,
                           !.said = IF g.retry_count >= GUI_MAX_RETRIES
                                    THEN <<"transition">> ELSE <<"correct">>])
    IN  [done EXCEPT !.entry_input = "normal", !.btn_send = "normal"]

\* The adapter is given the result the judge returned for the answer the
\* workflow has just graded; an adapter that takes no answer says nothing.
WebFed(w, result) == IF WebAccepts(w) THEN process_answer(w, result) ELSE [w EXCEPT !.said = <<>>]

\* _on_send disables the input and starts _evaluate_answer; past the last
\* question its lookup raises IndexError in the thread before the judge is
\* called, no message is queued and the input stays disabled.
GuiFed(g, result) ==
    IF ~GuiAccepts(g) THEN [g EXCEPT !.said = <<>>]
    ELSE IF g.current_q_index >= Len(g.exam_plan.questions)
    THEN [_on_send(g) EXCEPT !.said = <<>>]
    ELSE _handle_eval_result(_on_send(g), result)

\* Messages the worker threads put on msg_queue.
Msg(type, data) == [type |-> type, data |-> data]

\* What _evaluate_answer does with the session it reads: its lookup of
\* questions[current_q_index] is outside the try (AttributeError with no plan,
\* IndexError past the last question: the thread ends and queues nothing);
\* otherwise the judge returns a result or raises.
GuiScoreSamples == {PASS_SCORE - 1, PASS_SCORE}

_evaluate_answer(g) ==
    IF g.exam_plan = None \/ g.current_q_index >= Len(g.exam_plan.questions)
    THEN {<<>>}
    ELSE {<<Msg("EVAL_RESULT", evaluate_answer(s))>> : s \in GuiScoreSamples}
            \cup {<<Msg("ERROR", "Grading Error")>>}

\* What _process_pdf queues: a plan, or the failure of the generation.
_process_pdf ==
    {Msg("PLAN_READY", ExamPlan(n)) : n \in 0..MaxQuestions}
        \cup {Msg("ERROR", "Generation Failed")}

\* What _init_pipeline queues.
_init_pipeline == {Msg("INIT_SUCCESS", NoneStr), Msg("INIT_FAIL", NoneStr)}

\* gui.py _check_queue, one message: the session after its handler, and
\* whether the handler raised (_handle_eval_result looks up
\* questions[current_q_index] before it branches).
HandleMsg(g, msg) ==
    CASE msg.type = "INIT_SUCCESS" -> [gui |-> on_init_success(g), raised |-> FALSE]
      [] msg.type = "PLAN_READY" -> [gui |-> on_plan_ready(g, msg.data), raised |-> FALSE]
      [] msg.type = "ERROR" -> [gui |-> on_error(g), raised |-> FALSE]
      [] msg.type = "EVAL_RESULT" ->
            IF g.current_q_index >= Len(g.exam_plan.questions)
            THEN [gui |-> [g EXCEPT !.said = <<>>], raised |-> TRUE]
            ELSE [gui |-> _handle_eval_result(g, msg.data), raised |-> FALSE]
      [] OTHER -> [gui |-> g, raised |-> FALSE]

\* gui.py _check_queue: messages are handled until the queue is empty; an
\* exception in a handler ends this poll and leaves the rest queued.
RECURSIVE _check_queue(_, _)
_check_queue(g, q) ==
    IF q = <<>> THEN [gui |-> g, queue |-> q]
    ELSE LET h == HandleMsg(g, Head(q)) IN
         IF h.raised THEN [gui |-> h.gui, queue |-> Tail(q)]
         ELSE _check_queue(h.gui, Tail(q))

\* What an adapter has done on its present question: hints given, and whether
\* every answer to it needed remediation.
NewSeen == [hints |-> 0, only_remedial |-> TRUE]

SeenAfter(old, before, after, result) ==
    IF after.current_q_index /= before.current_q_index THEN NewSeen
    ELSE IF after.said = <<>> THEN old
    ELSE [hints |-> IF after.said[1] = "hint" THEN Min(old.hints + 1, MaxCount)
                    ELSE old.hints,
          only_remedial |-> old.only_remedial /\ result.is_remedial_needed]

\* SpanishInquisitionPipeline.run: the initial state handed to app.stream, for
\* a plan of n questions; set_entry_point("ask").
InitialState(n) ==
    [exam_plan |-> ExamPlan(n), current_q_index |-> 0, history |-> <<>>,
     last_judge_result |-> None, retry_count |-> 0, followup_question |-> None]

GraphInit(n) ==
    /\ state = InitialState(n)
    /\ pc = "ask"
    /\ step = [node |-> "start", out |-> <<>>, calls |-> <<>>, raised |-> NoneStr,
               collected |-> FALSE]
    /\ answers_on_q = 0
    /\ answers_total = 0
    /\ tally = NewTally(TRUE)
    /\ asked = <<>>
    /\ seen = [web |-> NewSeen, gui |-> NewSeen]

\* The worker threads of the desktop adapter: whether _init_pipeline and
\* _process_pdf run, and how many _evaluate_answer threads run.
NoThreads == [init |-> FALSE, planning |-> FALSE, grading |-> 0]

\* The console pipeline alone: no adapter session is open.
Init ==
    /\ \E n \in 0..MaxQuestions : GraphInit(n)
    /\ web = WebSession /\ gui = GuiApp
    /\ msg_queue = <<>> /\ threads = NoThreads

\* The console pipeline, a web session and a desktop session started on the
\* same plan of at least one question.
LockstepInit ==
    \E n \in 1..MaxQuestions :
        /\ GraphInit(n) /\ web = WebStarted(ExamPlan(n)) /\ gui = GuiStarted(ExamPlan(n))
        /\ msg_queue = <<>> /\ threads = NoThreads

\* One superstep of the compiled graph: node `node` ran and returned r. An
\* exception leaves app.stream with the state as it was before the node.
Run(node, r, collected) ==
    /\ step' = [node |-> node, out |-> r.out, calls |-> r.calls, raised |-> r.raised,
                collected |-> collected]
    /\ IF r.raised /= NoneStr
       THEN state' = state /\ pc' = "error"
       ELSE state' = Merge(state, r.upd) /\ pc' = NextNode(node, state')
    /\ answers_total' = IF collected THEN Min(answers_total + 1, MaxCount) ELSE answers_total
    /\ answers_on_q' =
          IF state'.current_q_index /= state.current_q_index THEN 0
          ELSE IF collected THEN Min(answers_on_q + 1, MaxCount)
          ELSE answers_on_q
    /\ tally' =
          IF state'.current_q_index /= state.current_q_index
          THEN NewTally(tally.only_passes)
          ELSE Tallied(tally, step', state')
    /\ asked' = Presented(step', asked)
    /\ LET judged == node = "grade" /\ r.raised = NoneStr
       IN  /\ web' = IF judged /\ web.exam_plan /= None
                     THEN WebFed(web, r.upd.last_judge_result) ELSE web
           /\ gui' = IF judged /\ gui.exam_plan /= None
                     THEN GuiFed(gui, r.upd.last_judge_result) ELSE gui
           /\ seen' = IF judged
                      THEN [web |-> SeenAfter(seen.web, web, web', r.upd.last_judge_result),
                            gui |-> SeenAfter(seen.gui, gui, gui', r.upd.last_judge_result)]
                      ELSE seen
    /\ UNCHANGED <<msg_queue, threads>>

Ask == pc = "ask" /\ Run("ask", ask_question(state), FALSE)

Listen == pc = "listen" /\ \E answer \in Answers : Run("listen", listen_answer(state, answer), TRUE)

Grade ==
    /\ pc = "grade"
    /\ \E grading \in GradingOutcomes, reply \in FollowupReplies :
          Run("grade", evaluate_response(state, grading, reply), FALSE)

Remedial == pc = "remedial" /\ Run("remedial", remedial_action(state), FALSE)

Advance == pc = "advance" /\ Run("advance", advance_step(state), FALSE)

Next == Ask \/ Listen \/ Grade \/ Remedial \/ Advance

Spec == Init /\ [][Next]_vars

\* app.stream runs the next node as long as there is one. (The graph library's
\* own cap on the number of supersteps of one run is outside the repository and
\* is not modelled: it would end a long run by an exception.)
FairSpec == Spec /\ WF_vars(Next)

\* The three front ends given the same plan, answers and judge results.
LockstepSpec == LockstepInit /\ [][Next]_vars

(* --------------------------- desktop adapter --------------------------- *)

console == <<state, pc, step, answers_on_q, answers_total, tally, asked, web, seen>>

\* LexiApp.__init__: the window is built, _init_pipeline is started and the
\* queue poller scheduled.
GuiInit ==
    /\ GraphInit(0) /\ web = WebSession /\ gui = GuiApp
    /\ msg_queue = <<>>
    /\ threads = [NoThreads EXCEPT !.init = TRUE]

\* The _init_pipeline thread ends.
InitPipeline ==
    /\ threads.init
    /\ \E m \in _init_pipeline : msg_queue' = Append(msg_queue, m)
    /\ threads' = [threads EXCEPT !.init = FALSE]
    /\ UNCHANGED <<gui, console>>

\* The user picks a PDF: _upload_pdf_action starts _process_pdf.
UploadPdf ==
    /\ gui.btn_upload /= "disabled"
    /\ gui' = _upload_pdf_action(gui)
    /\ threads' = [threads EXCEPT !.planning = TRUE]
    /\ UNCHANGED <<msg_queue, console>>

\* The _process_pdf thread ends.
ProcessPdf ==
    /\ threads.planning
    /\ \E m \in _process_pdf : msg_queue' = Append(msg_queue, m)
    /\ threads' = [threads EXCEPT !.planning = FALSE]
    /\ UNCHANGED <<gui, console>>

\* Gradings started whose EVAL_RESULT or ERROR has not been handled yet.
GradingsInFlight ==
    threads.grading
      + Cardinality({i \in 1..Len(msg_queue) :
                        \/ msg_queue[i].type = "EVAL_RESULT"
                        \/ msg_queue[i] = Msg("ERROR", "Grading Error")})

\* The user sends an answer: _on_send starts _evaluate_answer.
OnSend ==
    /\ GuiAccepts(gui)
    /\ GradingsInFlight < MaxThreads
    /\ gui' = _on_send(gui)
    /\ threads' = [threads EXCEPT !.grading = threads.grading + 1]
    /\ UNCHANGED <<msg_queue, console>>

\* An _evaluate_answer thread runs to its end.
EvaluateAnswer ==
    /\ threads.grading > 0
    /\ \E put \in _evaluate_answer(gui) : msg_queue' = msg_queue \o put
    /\ threads' = [threads EXCEPT !.grading = threads.grading - 1]
    /\ UNCHANGED <<gui, console>>

\* The poller (root.after(100, _check_queue)) finds messages.
CheckQueue ==
    /\ msg_queue /= <<>>
    /\ LET polled == _check_queue(gui, msg_queue) IN
          gui' = polled.gui /\ msg_queue' = polled.queue
    /\ UNCHANGED <<threads, console>>

GuiNext == InitPipeline \/ UploadPdf \/ ProcessPdf \/ OnSend \/ EvaluateAnswer \/ CheckQueue

\* The desktop adapter with its worker threads and queue poller.
GuiSpec == GuiInit /\ [][GuiNext]_vars

(* ------------------------- reading the workflow ------------------------ *)

NumQuestions == Len(state.exam_plan.questions)

\* A follow-up is active in state s.
Active(s) == Truthy(s.followup_question)

\* This step is the grade node returning normally (the judge has scored).
Grades == pc = "grade" /\ step'.node = "grade" /\ step'.raised = NoneStr

\* A judge port failed.
PortFailed == step.raised \in {"GradingError", "FollowupError"}

\* generate_followup returned a value without a question, and presenting it
\* failed.
PortMalformed == step.raised = "KeyError"

\* The workflow has stopped with every question behind it.
Completed == state.current_q_index = NumQuestions /\ pc \in {"END", "error"}

\* Some entry of the kept history starts with `tag`.
InHistory(tag) == \E i \in 1..Len(state.history) : state.history[i][1] = tag

(* -------------------------------- claims ------------------------------- *)

\* C1: for a plan with at least one question, as long as both ports return,
\* the workflow eventually stops with current_q_index = len(questions); it
\* cannot stay on one main question forever. (Stated under FairSpec.)
C1_EventuallyCompleted ==
    <>(NumQuestions = 0 \/ PortFailed \/ PortMalformed \/ Completed)

\* C2: for a plan with at least one question, at most 1 + 1 + MAX_RETRIES
\* answers are collected while current_q_index stays on one main question, and
\* at most len(questions) * (2 + MAX_RETRIES) in the whole exam.
C2_AnswerCyclesBounded ==
    NumQuestions >= 1 =>
        /\ state.current_q_index < NumQuestions => answers_on_q <= 1 + 1 + MAX_RETRIES
        /\ answers_total <= NumQuestions * (2 + MAX_RETRIES)

\* C3: a grade with score > 7.0 clears the follow-up, sets retry_count to 0,
\* generates no follow-up, emits no hint and routes to advance, whatever
\* retry_count and the follow-up were; and that advance adds exactly 1 to
\* current_q_index.
C3_PassAdvances ==
    [][ /\ (Grades /\ state'.last_judge_result.score > PASS_SCORE) =>
              /\ pc' = "advance"
              /\ ~Active(state')
              /\ state'.retry_count = 0
              /\ state'.current_q_index = state.current_q_index
              /\ ~GeneratesFollowup(step')
              /\ step'.out = <<>>
        /\ (pc = "advance" /\ state.last_judge_result /= None
                /\ state.last_judge_result.score > PASS_SCORE) =>
              /\ state'.current_q_index = state.current_q_index + 1
              /\ state'.retry_count = 0
              /\ ~Active(state')
              /\ step'.out = <<>>
              /\ step'.calls = <<>>
      ]_vars

\* C3 witness: the answer to a follow-up that had just been presented (so a
\* follow-up was active and retry_count was not 0) scored above 7.0 and was
\* routed to advance.
C3_Witness ==
    /\ step.node = "grade" /\ pc = "advance"
    /\ state.last_judge_result.score > PASS_SCORE
    /\ Len(state.history) >= 2
    /\ state.history[Len(state.history) - 1][1] = "AI (Follow-up): "

\* C4: a grade with 3.0 <= score <= 7.0 and no active follow-up generates a
\* follow-up and stores it, adds exactly 1 to retry_count, leaves
\* current_q_index alone, and the next node is ask (which presents it).
C4_PartialProbes ==
    [][ (Grades /\ ~Active(state)
            /\ state'.last_judge_result.score >= PARTIAL_SCORE
            /\ state'.last_judge_result.score <= PASS_SCORE) =>
              /\ GeneratesFollowup(step')
              /\ Active(state')
              /\ state'.retry_count = state.retry_count + 1
              /\ state'.current_q_index = state.current_q_index
              /\ pc' = "ask"
      ]_vars

\* C5: a grade with 3.0 <= score <= 7.0 while a follow-up is active is followed
\* by the remedial node, not by ask presenting the follow-up again.
C5_PartialFollowupRemediates ==
    [][ (Grades /\ Active(state)
            /\ state'.last_judge_result.score >= PARTIAL_SCORE
            /\ state'.last_judge_result.score <= PASS_SCORE) =>
              pc' = "remedial"
      ]_vars

\* C6: generate_followup is never called by a grade that starts with a
\* follow-up active.
C6_NoSecondLevelFollowup ==
    [][ (pc = "grade" /\ step'.node = "grade" /\ GeneratesFollowup(step')) => ~Active(state) ]_vars

\* C6 witness: a partial score was given to the answer of an active follow-up,
\* and the grade made the grading call only.
C6_Witness ==
    /\ step.node = "grade" /\ step.raised = NoneStr
    /\ Active(state)
    /\ ~GeneratesFollowup(step)
    /\ state.last_judge_result.score >= PARTIAL_SCORE
    /\ state.last_judge_result.score <= PASS_SCORE

\* C7: a grade with score < 3.0 is always followed by the remedial node, never
\* by advance or ask, whatever the follow-up and retry_count are.
C7_FailRemediates ==
    [][ (Grades /\ state'.last_judge_result.score < PARTIAL_SCORE) => pc' = "remedial" ]_vars

\* C8: 0 <= retry_count <= MAX_RETRIES in every reachable state.
C8_RetryCountBounded == 0 <= state.retry_count /\ state.retry_count <= MAX_RETRIES

\* C9: remedial with retry_count >= 2 emits the moving-on message, clears the
\* follow-up, adds exactly 1 to current_q_index, sets retry_count to 0, and the
\* next node presents the next question or ends: no answer is collected next.
C9_GiveUpAdvances ==
    [][ (pc = "remedial" /\ state.retry_count >= MAX_RETRIES) =>
              /\ SaysMovingOn(step')
              /\ ~Active(state')
              /\ state'.current_q_index = state.current_q_index + 1
              /\ state'.retry_count = 0
              /\ pc' \in {"ask", "END"}
      ]_vars

\* C10: for a plan with at least one question, once current_q_index equals
\* len(questions) nothing is presented, no answer is collected, no judge call is
\* made, no state field changes, and the workflow does not end by an error.
C10_CompleteIsTerminal ==
    [][ (NumQuestions >= 1 /\ state.current_q_index = NumQuestions) =>
              /\ state' = state
              /\ step'.out = <<>>
              /\ ~step'.collected
              /\ step'.calls = <<>>
              /\ pc' /= "error"
      ]_vars


\* C11: 0 <= current_q_index <= len(questions) in every reachable state, and
\* every step leaves the index alone or adds exactly 1 to it.
C11_IndexInRangeAndStepsByOne ==
    /\ [](0 <= state.current_q_index /\ state.current_q_index <= NumQuestions)
    /\ [][ \/ state'.current_q_index = state.current_q_index
           \/ state'.current_q_index = state.current_q_index + 1 ]_vars

\* C11 witness: the advance node has just moved the index of a plan of two or
\* more questions to len(questions).
C11_Witness ==
    /\ step.node = "advance"
    /\ NumQuestions >= 2
    /\ state.current_q_index = NumQuestions


\* C12: while every answer to the current main question has scored below 3.0,
\* at most MAX_RETRIES hints are emitted and at most MAX_RETRIES + 1 answers are
\* collected for it, and the index leaves such a question after exactly
\* MAX_RETRIES hints and MAX_RETRIES + 1 answers (3 answers for scores
\* 2.0, 2.0, 2.0).
C12_ThreeFailsForceAdvance ==
    /\ []((state.current_q_index < NumQuestions /\ tally.only_fails) =>
              /\ tally.hints <= MAX_RETRIES
              /\ answers_on_q <= MAX_RETRIES + 1)
    /\ [][ (state'.current_q_index /= state.current_q_index /\ tally.only_fails) =>
              /\ tally.hints = MAX_RETRIES
              /\ answers_on_q = MAX_RETRIES + 1 ]_vars


\* The second answer to the current main question is being graded, it answers
\* a follow-up, and no hint was given: the first answer scored in [3.0, 7.0).
GradesFirstFollowup == Active(state) /\ answers_on_q = 2 /\ tally.hints = 0

\* C13: when the first answer to a main question scored in [3.0, 7.0) and the
\* answer to the follow-up scores above 7.0, the grade routes to advance with
\* exactly one follow-up generated and presented and 2 answers collected; the
\* advance adds 1 to the index and leaves no follow-up and retry_count 0.
C13_ProbeThenPassAdvances ==
    [][ /\ (Grades /\ GradesFirstFollowup /\ state'.last_judge_result.score > PASS_SCORE) =>
              /\ pc' = "advance"
              /\ tally'.followups = 1
              /\ tally'.followup_asks = 1
              /\ answers_on_q' = 2
        /\ (pc = "advance" /\ state.last_judge_result /= None
                /\ state.last_judge_result.score > PASS_SCORE
                /\ answers_on_q = 2 /\ tally.followup_asks = 1 /\ tally.hints = 0) =>
              /\ state'.current_q_index = state.current_q_index + 1
              /\ ~Active(state')
              /\ state'.retry_count = 0
      ]_vars

\* C13 witness: the index has just advanced after exactly two answers, the
\* second one an answer to the one follow-up that was presented.
C13_Witness ==
    /\ step.node = "advance"
    /\ state.current_q_index = 1
    /\ answers_total = 2
    /\ Len(state.history) >= 2
    /\ state.history[Len(state.history) - 1][1] = "AI (Follow-up): "


\* C14: for a plan of N >= 1 questions, as long as every graded answer has
\* scored above 7.0 and the grader has not failed, at most N answers are
\* collected (no (N+1)-th answer is requested) and the run does not end by an
\* exception.
C14_AllPassCollectsNAnswers ==
    (NumQuestions >= 1 /\ tally.only_passes /\ ~PortFailed) =>
        /\ answers_total <= NumQuestions
        /\ pc /= "error"


\* C15: every grade that calls generate_followup, whatever the model call does
\* (it raises, or its reply is not a follow-up object with a question), returns
\* normally and stores a follow-up that has a non-empty question and the
\* context snippet of the question that was graded.
C15_FollowupFailureFallsBack ==
    [][ (pc = "grade" /\ step'.node = "grade" /\ GeneratesFollowup(step')) =>
              /\ step'.raised = NoneStr
              /\ Active(state')
              /\ "question" \in DOMAIN state'.followup_question
              /\ state'.followup_question.question /= <<>>
              /\ state'.followup_question.context_snippet = step'.calls[1].context
      ]_vars


\* Two judge calls pass the same arguments.
SameArguments(c, d) ==
    /\ c.port = d.port /\ c.question = d.question /\ c.user_answer = d.user_answer
    /\ c.context = d.context /\ c.criteria = d.criteria /\ c.exemplar = d.exemplar

\* C16: when the grading call of a grade step fails, the exception reaches the
\* caller (the run ends with it), no field of the state changes (index,
\* retry_count, follow-up, last judge result; the answer entry stays last in
\* history), and a grade run on that state makes the same grading call.
C16_GradingFailureLeavesState ==
    [][ (pc = "grade" /\ step'.node = "grade" /\ step'.calls /= <<>> /\ step'.calls[1].raises) =>
              /\ step'.raised = "GradingError"
              /\ pc' = "error"
              /\ state' = state
              /\ Last(state'.history)[1] = "User: "
              /\ \A g \in GradingOutcomes :
                    LET again == evaluate_response(state', g, "json") IN
                    again.calls /= <<>> /\ SameArguments(again.calls[1], step'.calls[1])
      ]_vars

\* C16 witness: the grader failed on the answer to a follow-up after a hint;
\* the run has ended with the exception and the state still holds the
\* follow-up, the retries and the answer.
C16_Witness ==
    /\ step.node = "grade" /\ step.raised = "GradingError" /\ pc = "error"
    /\ Active(state) /\ state.retry_count = MAX_RETRIES
    /\ Last(state.history)[1] = "User: "


\* What the workflow decided for the answer it has just graded.
ConsoleDecision ==
    CASE pc = "advance" -> "advance"
      [] pc = "ask" -> "probe"
      [] pc = "remedial" /\ state.retry_count < MAX_RETRIES -> "hint"
      [] pc = "remedial" /\ state.retry_count >= MAX_RETRIES -> "give_up"
      [] OTHER -> "end"

\* What an adapter decided, read from the first message it added.
AdapterDecision(said) ==
    IF said = <<>> THEN "none"
    ELSE CASE said[1] = "hint" -> "hint"
           [] said[1] = "transition" -> "give_up"
           [] said[1] = "correct" -> "advance"
           [] OTHER -> "none"

\* C17: for every plan and every sequence of scores, process_answer (web) and
\* _handle_eval_result (desktop) make the same advance / probe / hint /
\* give-up decision after each answer as the console workflow, and whenever
\* the workflow awaits an answer they hold the same question index and
\* retry_count. (Stated under LockstepSpec.)
C17_AdaptersFollowWorkflow ==
    /\ (step.node = "grade" /\ step.raised = NoneStr) =>
          /\ AdapterDecision(web.said) = ConsoleDecision
          /\ AdapterDecision(gui.said) = ConsoleDecision
    /\ (pc = "listen" /\ step.node /= "start") =>
          /\ web.current_q_index = state.current_q_index
          /\ web.retry_count = state.retry_count
          /\ gui.current_q_index = state.current_q_index
          /\ gui.retry_count = state.retry_count


\* C18: whenever ask presents a main question, retry_count is 0 and no
\* follow-up is active; every change of current_q_index leaves retry_count 0
\* and no follow-up.
C18_MainQuestionStartsFresh ==
    [][/\ (pc = "ask" /\ AsksMain(step')) => (state.retry_count = 0 /\ ~Active(state))
       /\ (state'.current_q_index /= state.current_q_index) =>
             (state'.retry_count = 0 /\ ~Active(state'))]_vars

\* C18 witness: the second main question has just been presented after the
\* first one took at least two answers (a hint or a follow-up came before).
C18_Witness ==
    /\ AsksMain(step) /\ pc = "listen"
    /\ state.current_q_index = 1
    /\ answers_total >= 2
    /\ state.retry_count = 0 /\ ~Active(state)

\* C19: with an empty question list the plan is rejected before the first
\* transition: nothing is presented, no answer is collected, no judge call is
\* made.
C19_EmptyPlanRejected ==
    NumQuestions = 0 =>
        (step.out = <<>> /\ ~step.collected /\ answers_total = 0 /\ step.calls = <<>>)

\* C20: when remedial runs with retry_count < 2 it adds exactly 1 to
\* retry_count, leaves current_q_index and the follow-up as they are, appends
\* exactly one "AI Hint: " entry to history, outputs the one hint, and the
\* next step is listen (which collects) without another ask.
C20_HintFrame ==
    [][/\ (pc = "remedial" /\ state.retry_count < MAX_RETRIES) =>
             /\ step'.node = "remedial" /\ step'.raised = NoneStr
             /\ state'.retry_count = state.retry_count + 1
             /\ state'.current_q_index = state.current_q_index
             /\ state'.followup_question = state.followup_question
             /\ state'.last_judge_result = state.last_judge_result
             /\ Last(state'.history)[1] = "AI Hint: "
             /\ state'.history = Keep(state.history \o <<Last(state'.history)>>)
             /\ GivesHint(step') /\ Len(step'.out) = 1
             /\ pc' = "listen"
       /\ (step.node = "remedial" /\ GivesHint(step)) =>
             (step'.node = "listen" /\ step'.collected)]_vars

\* C20 witness: a hint has just been given while a follow-up is active (the
\* probe had taken retry_count to 1), and the workflow awaits the answer.
C20_Witness ==
    /\ step.node = "remedial" /\ GivesHint(step)
    /\ pc = "listen"
    /\ Active(state)
    /\ state.retry_count = MAX_RETRIES


\* The question being answered in state s: the follow-up when one is active,
\* otherwise the main question at current_q_index.
ActiveQuestion(s) ==
    IF Active(s) THEN s.followup_question ELSE s.exam_plan.questions[s.current_q_index + 1]

\* C21: every hint remedial outputs is "Not quite. Hint: <criteria>. Try
\* again." with the criteria of the active rubric: the follow-up's when a
\* follow-up is active, otherwise the main question's at current_q_index.
C21_HintFromActiveRubric ==
    [][(pc = "remedial" /\ GivesHint(step')) =>
          step'.out[1] = <<"Not quite. Hint: ">>
                            \o ActiveQuestion(state).rubric.criteria
                            \o <<". Try again.">>]_vars

\* C21 witness: a hint built from the criteria of an active follow-up has just
\* been output.
C21_Witness ==
    /\ step.node = "remedial" /\ GivesHint(step)
    /\ Active(state)
    /\ step.out[1] = <<"Not quite. Hint: ">> \o state.followup_question.rubric.criteria
                         \o <<". Try again.">>
    /\ state.followup_question.rubric.criteria
          /= state.exam_plan.questions[state.current_q_index + 1].rubric.criteria

\* C22: every judge.evaluate_answer call gets the question text, context
\* snippet, criteria and exemplar of the active question (the follow-up when
\* one is active, otherwise the main question at current_q_index), with no
\* exemplar when the active rubric has none.
C22_GradesActiveQuestion ==
    [][(pc = "grade" /\ step'.calls /= <<>>) =>
          LET q == ActiveQuestion(state)
              call == step'.calls[1] IN
          /\ call.port = "evaluate_answer"
          /\ call.question = q.question
          /\ call.context = q.context_snippet
          /\ call.criteria = q.rubric.criteria
          /\ call.exemplar = IF "exemplar" \in DOMAIN q.rubric THEN q.rubric.exemplar
                              ELSE NoneStr]_vars

\* C22 witness: a follow-up answer has just been graded with the follow-up's
\* own exemplar.
C22_Witness ==
    /\ step.node = "grade" /\ step.calls /= <<>>
    /\ step.calls[1].question[1] = "F"
    /\ step.calls[1].exemplar = "fexemplar"

\* C23: at each judge.evaluate_answer call the question text passed equals the
\* text of the question ask presented last.
C23_GradesPresentedQuestion ==
    (step.node = "grade" /\ step.calls /= <<>>) => step.calls[1].question = asked

\* C24: every change of current_q_index comes right after a graded score above
\* 7.0 or after the moving-on message was output for that question; the index
\* never changes on a score <= 7.0 without that message.
C24_AdvanceNeedsPassOrGiveUp ==
    [][(state'.current_q_index /= state.current_q_index) =>
          \/ (state.last_judge_result /= None
                /\ state.last_judge_result.score > PASS_SCORE)
          \/ tally.moved_on]_vars

\* C25: while current_q_index keeps one value, generate_followup is called at
\* most once.
C25_OneFollowupPerQuestion == tally.followups <= 1


\* The history entries an answer can make.
AnswerEntries == {<<"User: ">> \o a : a \in Answers}

\* C26: history is append-only (a step leaves it alone or adds one entry at
\* its end; of the kept window only the oldest entry leaves), each collected
\* answer adds exactly one "User: " entry, and when grade runs the last entry
\* is the answer the listen step just before it collected, which is the
\* answer handed to the judge.
C26_HistoryAppendOnly ==
    [][/\ \/ state'.history = state.history
          \/ /\ state'.history /= <<>>
             /\ state'.history = Keep(state.history \o <<Last(state'.history)>>)
       /\ pc = "listen" =>
             /\ step'.collected
             /\ \E e \in AnswerEntries : state'.history = Keep(state.history \o <<e>>)
       /\ ~step'.collected =>
             \/ state'.history = state.history
             \/ Last(state'.history)[1] /= "User: "
       /\ pc = "grade" =>
             /\ step.node = "listen" /\ step.collected
             /\ Last(state.history) \in AnswerEntries
             /\ step'.calls /= <<>> =>
                   step'.calls[1].user_answer = Replace(Last(state.history))]_vars

\* C26 witness: a second answer has been collected and graded with the kept
\* history full, its last entry being that answer.
C26_Witness ==
    /\ step.node = "grade" /\ step.calls /= <<>>
    /\ answers_total >= 2
    /\ Len(state.history) = MaxHistory
    /\ Last(state.history) \in AnswerEntries

\* The calls of a step made to one judge port.
CallsTo(st, port) == {i \in 1..Len(st.calls) : st.calls[i].port = port}

\* C27: with a plan of at least one question, every collected answer is followed at once by a grade step that makes
\* exactly one evaluate_answer call (an empty answer too), and no step makes
\* more than one generate_followup call.
C27_EveryAnswerGradedOnce ==
    [][/\ (step.collected /\ NumQuestions >= 1) =>
             (step'.node = "grade" /\ Cardinality(CallsTo(step', "evaluate_answer")) = 1)
       /\ Cardinality(CallsTo(step', "generate_followup")) <= 1]_vars

\* C28: for every score, is_remedial_needed is true exactly when the score is
\* not a pass (score <= 7.0): no score is 'not remedial' and partial at once.
C28_RemedialFlagMatchesPass ==
    state.last_judge_result /= None =>
        (state.last_judge_result.is_remedial_needed
            <=> state.last_judge_result.score <= PASS_SCORE)


\* An adapter session a (before) and b (after an answer whose result needed
\* remediation or not), with what it had done on the question: if every
\* answer to the question needed remediation, the question is left only after
\* exactly two hints, by one step of the index, with retry_count 0.
LeavesAfterTwoHints(a, b, done, remedial) ==
    (b.current_q_index /= a.current_q_index /\ done.only_remedial /\ remedial) =>
        /\ done.hints = 2
        /\ b.current_q_index = a.current_q_index + 1
        /\ b.retry_count = 0

\* C29: in process_answer (web) and _handle_eval_result (desktop) retry_count
\* stays within 0..2, and a question whose answers all need remediation gets
\* exactly two hints and is left on the third answer with retry_count reset
\* to 0. (Stated under LockstepSpec.)
C29_AdapterRetriesBounded ==
    /\ [](web.retry_count \in 0..2 /\ gui.retry_count \in 0..2)
    /\ [](seen.web.only_remedial => seen.web.hints = web.retry_count)
    /\ [](seen.gui.only_remedial => seen.gui.hints = gui.retry_count)
    /\ [][/\ LeavesAfterTwoHints(web, web', seen.web,
                                  state'.last_judge_result /= None
                                    /\ state'.last_judge_result.is_remedial_needed)
          /\ LeavesAfterTwoHints(gui, gui', seen.gui,
                                  state'.last_judge_result /= None
                                    /\ state'.last_judge_result.is_remedial_needed)]_vars

\* C29 witness: both adapters have just left the first question on a third
\* answer needing remediation, after two hints.
C29_Witness ==
    /\ web.current_q_index = 1 /\ web.retry_count = 0 /\ web.said[1] = "transition"
    /\ gui.current_q_index = 1 /\ gui.retry_count = 0 /\ gui.said[1] = "transition"
    /\ step.node = "grade" /\ state.last_judge_result.is_remedial_needed


\* C30: in the desktop adapter at most one grading is in flight: between an
\* answer's submission and the handling of its EVAL_RESULT or ERROR message no
\* second answer is submitted, whatever the interleaving of the grading
\* thread, the plan-generation thread and the poller. (Stated under GuiSpec.)
C30_OneGradingInFlight == GradingsInFlight <= 1


\* C31: in the desktop adapter, while one answer to a question of the plan is
\* in flight (submitted, its EVAL_RESULT or ERROR not yet handled) exam_plan, current_q_index and
\* retry_count do not change, whatever the interleaving with a PDF upload and
\* its PLAN_READY message. (Stated under GuiSpec.)
C31_ResultAppliedWhereAsked ==
    [][(/\ GradingsInFlight = 1 /\ GradingsInFlight' = 1
        /\ gui.exam_plan /= None
        /\ gui.current_q_index < Len(gui.exam_plan.questions)) =>
          /\ gui'.exam_plan = gui.exam_plan
          /\ gui'.current_q_index = gui.current_q_index
          /\ gui'.retry_count = gui.retry_count]_vars

\* C32: in the desktop adapter, once a plan of at least one question is
\* complete (current_q_index = len(questions), exam_complete set), the entry
\* and SEND are disabled, so no further answer is accepted. (Stated under
\* GuiSpec.)
C32_CompleteDisablesInput ==
    (/\ gui.exam_plan /= None
     /\ gui.exam_complete
     /\ Len(gui.exam_plan.questions) >= 1
     /\ gui.current_q_index >= Len(gui.exam_plan.questions)) =>
        (gui.entry_input = "disabled" /\ ~GuiAccepts(gui))

\* C33: the answer passed to judge.evaluate_answer is exactly the text the
\* student typed last (the last history entry without its speaker tag), also
\* when the text itself contains "User: ".
C33_AnswerPassedVerbatim ==
    (step.node = "grade" /\ step.calls /= <<>>) =>
        step.calls[1].user_answer = Tail(Last(state.history))

====
